---- MODULE Spec2Model ----
(***************************************************************************)
(* One tunnel session of src/network: the driver (websocket.ts), the TCP   *)
(* bridge with its fallback chain (tcp.ts) and the DNS bridge (dns.ts).    *)
(* Every await of the code is a point where another event may be handled;  *)
(* the synchronous code between two awaits is one step.                    *)
(***************************************************************************)
EXTENDS Integers, Sequences, FiniteSets, TLC

\* ------------------------------------------------------------------ bounds
MaxProxies == 2   \* longest fallback list tried
MaxMsgs    == 2   \* inbound duplex messages the peer sends
MaxChunks  == 2   \* chunks one outbound connection delivers
MaxInput   == 5   \* longest PROXY_IP string parsed on its own

\* --------------------------------------------------------------- constants
DnsPort == 53             \* websocket.ts: header.port === 53, dns.ts: port: 53
DefaultProxyPort == 443   \* websocket.ts: Number(portStr) || 443

VARIABLES
  pc,        \* position of the driver's promise chain
  earlyData, \* whether the Sec-WebSocket-Protocol header carried early data
  header,    \* the Header processHeader produced: isUDP, port, address
  PROXY_IP,  \* env.PROXY_IP, the comma-separated fallback list as configured
  proxyIPs,  \* the parsed fallback list handed to processTCP
  hdrMsg,    \* inbound message that became the header (0: early data / none yet)
  address,   \* processTCP's local `address` (may be replaced by the resolved IP)
  idx,       \* retry's position in proxyIPs (0: the primary dial)
  dialErr,   \* what the last failed dial threw, as retry logs it ("none": nothing yet)
  socket,    \* processTCP's `socket`: the connection dial returned (0: undefined)
  socks,     \* every outbound connection connect() returned, in order
  wsPeer,    \* "open", or "closed" once the peer's close/error event was dispatched
  wsOurs,    \* TRUE once safeCloseWebSocket was called on the duplex connection
  hdrL,      \* getHeader's handleMsg/handleErr are registered
  msgL,      \* sockets whose dial's messageFn is registered
  clsL,      \* sockets whose close/error listeners are registered
  dnsL,      \* socket whose dns.ts handleMessage is registered (0: none)
  dohL,      \* the DoH message listener is registered
  dohQ,      \* payloads POSTed to the DoH endpoint, in order
  dohPend,   \* inbound messages whose DoH query is in flight
  sent,      \* messages delivered to the duplex peer, in order
  nIn,       \* inbound messages dispatched so far
  err        \* what the driver's catch reported

vars == <<pc, earlyData, header, PROXY_IP, proxyIPs, hdrMsg, address, idx, socket, dialErr,
          socks, wsPeer,
          wsOurs, hdrL, msgL, clsL, dnsL, dohL, dohQ, dohPend, sent, nIn, err>>

\* ------------------------------------------------------------------ values
Domain  == "example.com"
Literal == "1.2.3.4"
ResolvedIP == "93.184.216.34"
\* the headers tried: a TCP request to a domain name and to a literal address, a
\* DNS request (UDP, port 53) and a UDP request to another port
Header(u, p, a) == [isUDP |-> u, port |-> p, address |-> a]
Headers == {Header(FALSE, DefaultProxyPort, Domain), Header(FALSE, DefaultProxyPort, Literal),
            Header(TRUE, DnsPort, Literal), Header(TRUE, DefaultProxyPort, Literal)}

\* ------------------------------------------------- the fallback list parsed
\* a JavaScript string is the sequence of its characters; indices are JavaScript's,
\* from 0, and -1 is "not found"
Max(a, b) == IF a >= b THEN a ELSE b
Min(a, b) == IF a <= b THEN a ELSE b

\* String.prototype.slice(from, to): a negative index counts from the end, and
\* both are clamped to the string
Slice(str, from, to) ==
  LET n == Len(str)
      a == IF from < 0 THEN Max(n + from, 0) ELSE Min(from, n)
      b == IF to < 0 THEN Max(n + to, 0) ELSE Min(to, n)
  IN SubSeq(str, a + 1, b)
SliceFrom(str, from) == Slice(str, from, Len(str))

\* String.prototype.indexOf / lastIndexOf / startsWith for one character
IndexOf(str, c) ==
  IF \E i \in 1..Len(str) : str[i] = c
    THEN (CHOOSE i \in 1..Len(str) : str[i] = c /\ \A j \in 1..(i - 1) : str[j] # c) - 1
    ELSE -1
LastIndexOf(str, c) ==
  IF \E i \in 1..Len(str) : str[i] = c
    THEN (CHOOSE i \in 1..Len(str) : str[i] = c /\ \A j \in (i + 1)..Len(str) : str[j] # c) - 1
    ELSE -1
StartsWith(str, c) == Len(str) >= 1 /\ str[1] = c

\* String.prototype.trim
RECURSIVE TrimStart(_)
TrimStart(str) ==
  IF str # <<>> /\ Head(str) = " " THEN TrimStart(Tail(str)) ELSE str
RECURSIVE TrimEnd(_)
TrimEnd(str) ==
  IF str # <<>> /\ str[Len(str)] = " " THEN TrimEnd(SubSeq(str, 1, Len(str) - 1)) ELSE str
Trim(str) == TrimEnd(TrimStart(str))

\* String.prototype.split(',')
RECURSIVE Split(_)
Split(str) ==
  LET i == IndexOf(str, ",")
  IN IF i = -1 THEN <<str>> ELSE <<Slice(str, 0, i)>> \o Split(SliceFrom(str, i + 1))

\* Number(str) for the strings that can occur: surrounding white space is
\* ignored, the empty string is 0, an optionally signed run of decimal digits is
\* its value, and anything else is NaN
DigitChars == <<"0", "1", "2", "3", "4", "5", "6", "7", "8", "9">>
IsDigit(c) == \E d \in 1..Len(DigitChars) : DigitChars[d] = c
DigitValue(c) == (CHOOSE d \in 1..Len(DigitChars) : DigitChars[d] = c) - 1
IsDigits(str) == str # <<>> /\ \A i \in 1..Len(str) : IsDigit(str[i])
RECURSIVE Decimal(_)
Decimal(str) ==
  IF str = <<>> THEN 0
  ELSE Decimal(SubSeq(str, 1, Len(str) - 1)) * Len(DigitChars) + DigitValue(str[Len(str)])
Number(str) ==
  LET t == Trim(str)
  IN IF t = <<>> THEN [nan |-> FALSE, val |-> 0]
     ELSE IF IsDigits(t) THEN [nan |-> FALSE, val |-> Decimal(t)]
     ELSE IF Head(t) = "-" /\ IsDigits(Tail(t)) THEN [nan |-> FALSE, val |-> 0 - Decimal(Tail(t))]
     ELSE [nan |-> TRUE, val |-> 0]

\* websocket.ts 108: Number(portStr) || 443 (0 and NaN are falsy)
PortOf(portStr) ==
  LET n == Number(portStr)
  IN IF n.nan \/ n.val = 0 THEN DefaultProxyPort ELSE n.val

\* the servername of an entry written without '@'
Undefined == <<"undefined">>
ProxyEntry(host, port, servername) ==
  [host |-> host, port |-> port, servername |-> servername]

\* websocket.ts 86-110: one trimmed, non-empty item to { host, port, servername }
ParseEntry(item) ==
  LET atIndex == IndexOf(item, "@")
      servername == IF atIndex # -1 THEN SliceFrom(item, atIndex + 1) ELSE Undefined
      v == IF atIndex # -1 THEN Slice(item, 0, atIndex) ELSE item
      closeIdx == IndexOf(v, "]")
      lastColon == LastIndexOf(v, ":")
      host == IF StartsWith(v, "[") THEN Slice(v, 1, closeIdx) ELSE Slice(v, 0, lastColon)
      portStr == IF StartsWith(v, "[") THEN SliceFrom(v, closeIdx + 2)
                 ELSE SliceFrom(v, lastColon + 1)
  IN ProxyEntry(host, PortOf(portStr), servername)

\* websocket.ts 111-117: !p.host || !Number.isFinite(p.port) || p.port <= 0 is
\* dropped (PortOf never yields NaN or an infinity)
IsValidEntry(p) == p.host # <<>> /\ p.port > 0

\* websocket.ts 82-117: split, trim, drop the empty items, parse, drop the invalid
NonEmpty(str) == str # <<>>
ParseProxyIP(env) ==
  LET parts == Split(env)
      items == SelectSeq([i \in 1..Len(parts) |-> Trim(parts[i])], NonEmpty)
  IN SelectSeq([i \in 1..Len(items) |-> ParseEntry(items[i])], IsValidEntry)

\* env.PROXY_IP of the sessions tried: n items "r<i>:443" joined by commas
ProxyItem(i) == <<"r", DigitChars[i + 1], ":", "4", "4", "3">>
RECURSIVE ProxyEnv(_)
ProxyEnv(n) ==
  IF n = 0 THEN <<>>
  ELSE IF n = 1 THEN ProxyItem(n)
  ELSE ProxyEnv(n - 1) \o <<",">> \o ProxyItem(n)

\* dns.ts 9: connect({ hostname: '8.8.8.8', port: 53 })
Resolver == [host |-> "8.8.8.8", port |-> DnsPort]


\* the header's rawData, written first to every outbound connection
RawData == 0

\* a chunk read from outbound connection s, the n-th it delivered
Chunk(s, n) == [src |-> s, n |-> n]
\* the body of the DoH response to query payload q
DohBody(q) == [src |-> 0, n |-> q]

\* new Blob([Protocol.RESPONSE_DATA(version), value]).arrayBuffer(): one message,
\* the response preamble followed by value
WithPreamble(value) == [pre |-> TRUE, body |-> value]
\* ws.send(chunk), new Blob([buf]).arrayBuffer(): the bytes alone
Verbatim(value) == [pre |-> FALSE, body |-> value]

Error(kind, a, p) == [kind |-> kind, address |-> a, port |-> p]
NoErr == Error("none", "", 0)

\* ----------------------------------------------------------------- helpers
\* utils/helpers safeCloseWebSocket: closes the duplex connection, never throws,
\* a no-op on a connection that is already closed
safeCloseWebSocket(closed) == TRUE

\* the duplex connection can still deliver what ws.send is given
WsOpen == wsPeer = "open" /\ ~wsOurs

\* ws.send on a connection that is no longer open either throws (workerd after
\* close()) or discards the data silently (WHATWG): both are possible
SendOutcomes == IF WsOpen THEN {"ok"} ELSE {"throw", "drop"}
Delivered(o, msg) == IF o = "ok" THEN Append(sent, msg) ELSE sent

\* connect(remote): a socket whose connection is still being established
NewSock(tgt, via) ==
  [tgt |-> tgt, via |-> via, st |-> "pending", wr |-> <<>>, rd |-> 0, end |-> "none"]

\* the pending connection is established and the queued rawData is written
Opened(s) == [s EXCEPT !.st = "open", !.wr = <<RawData>>]

\* the socket ends: "remote" is the far end's end of stream or a failure of the
\* connection, "local" socket.close() or a cancel; nothing more is written to or
\* read from it, and what it carried is no longer recorded
Ended(s, why) ==
  IF s.st = "closed" THEN s
  ELSE [s EXCEPT !.st = "closed", !.end = why, !.wr = <<>>, !.rd = 0]

\* writer.write(data): queued in call order; rejected once the socket has ended
WriterWrite(s, item) == IF s.st = "open" THEN [s EXCEPT !.wr = Append(@, item)] ELSE s

\* reader.read() delivered the next chunk
ReadOne(s) == [s EXCEPT !.rd = @ + 1]

cur == Len(socks)

\* tcp.ts 84: isNaN(Number(address.split('.')[0]))
LooksLikeDomain(a) == a = Domain

\* tcp.ts 133-164: resolveDomain returns an A/AAAA answer, or the domain itself
ResolveResults(a) == {a, ResolvedIP}

\* a dial that would connect to the resolved address
DialTarget_Resolved(originalAddress, addr) == [host |-> addr, port |-> header.port]

\* tcp.ts 82-103: of the two addresses processTCP holds, the header's and the one
\* resolveDomain may have replaced it with, the dial is given the header's:
\* { hostname: originalAddress, port: header.port }
DialTarget(originalAddress, addr) == [host |-> originalAddress, port |-> header.port]
PrimaryTarget == DialTarget(header.address, address)

\* a slip that would report the reassigned local `address` instead
UnreachableError_Resolved == Error("unreachable", address, header.port)

\* tcp.ts 113-115: cannot connect to hostname: header.address, port: header.port
UnreachableError == Error("unreachable", header.address, header.port)

\* -------------------------------------------------------------------- Init
\* websocket.ts 126-136: the pair is accepted and getHeader's executor has run:
\* early data resolves the promise at once, and the listeners are registered
Init ==
  /\ earlyData \in BOOLEAN
  /\ header \in Headers
  /\ PROXY_IP \in {ProxyEnv(n) : n \in 0..MaxProxies}
  /\ proxyIPs = ParseProxyIP(PROXY_IP)
  /\ pc = IF earlyData THEN "processHeader" ELSE "getHeader"
  /\ hdrMsg = 0
  /\ address = header.address
  /\ idx = 0
  /\ socket = 0
  /\ dialErr = "none"
  /\ socks = <<>>
  /\ wsPeer = "open"
  /\ wsOurs = FALSE
  /\ hdrL = TRUE
  /\ msgL = {}
  /\ clsL = {}
  /\ dnsL = 0
  /\ dohL = FALSE
  /\ dohQ = <<>>
  /\ dohPend = {}
  /\ sent = <<>>
  /\ nIn = 0
  /\ err = NoErr

config == <<earlyData, header, PROXY_IP, proxyIPs>>
tcpVars == <<address, idx, socket, dialErr>>
wsVars == <<wsPeer, wsOurs, sent>>
lsnVars == <<hdrL, msgL, clsL, dnsL, dohL>>
dohVars == <<dohQ, dohPend>>

\* ------------------------------------------------------------------ driver
\* a catch that would log the error and leave the duplex connection open
Catch_LogOnly(e) ==
  /\ err' = e
  /\ wsOurs' = wsOurs
  /\ pc' = "done"

\* websocket.ts 149-152: .catch((err) => { console.error(err); safeCloseWebSocket(server) })
Catch(e) ==
  /\ err' = e
  /\ wsOurs' = safeCloseWebSocket(wsOurs)
  /\ pc' = "done"

\* tcp.ts 23-35: dial's synchronous start: connect(remote), getWriter(), and the
\* write of rawData, which is awaited
DialStart(ss, remote) == Append(ss, NewSock(remote, "dial"))

\* tcp.ts 78-107: processTCP up to its first await: the resolution of a domain
\* name, or the primary dial
ProcessTCP(ss) ==
  /\ dialErr' = "none"
  /\ address' = header.address
  /\ idx' = 0
  /\ socket' = 0
  /\ IF LooksLikeDomain(header.address)
       THEN pc' = "resolve" /\ socks' = ss
       ELSE pc' = "dialWrite" /\ socks' = DialStart(ss, DialTarget(header.address, address'))

\* tcp.ts 87-107: resolveDomain returned; the result is logged and the dial uses
\* originalAddress
Resolved ==
  /\ pc = "resolve"
  /\ \E r \in ResolveResults(address) :
       address' = IF r # address THEN r ELSE address
  /\ socks' = DialStart(socks, DialTarget(header.address, address'))
  /\ pc' = "dialWrite"
  /\ UNCHANGED <<config, hdrMsg, idx, socket, dialErr, wsVars, lsnVars, dohVars, nIn, err>>

\* dns.ts 8-11: processDNS up to its first await
ProcessDNS ==
  /\ socks' = Append(socks, NewSock(Resolver, "dns"))
  /\ pc' = "dnsWrite"
  /\ UNCHANGED tcpVars

\* a dispatch that would hand every UDP request to the DNS bridge
IsDns_AnyPort == header.isUDP

\* websocket.ts 139-140: if (header.isUDP) { if (header.port === 53)
IsDns == header.isUDP /\ header.port = DnsPort
IsTcp == ~header.isUDP

\* websocket.ts 137-148: processHeader (which may throw), then the dispatch on the
\* header
ProcessHeader ==
  /\ pc = "processHeader"
  /\ \/ /\ Catch(Error("header", "", 0))
        /\ UNCHANGED <<tcpVars, socks>>
     \/ /\ IsDns
        /\ ProcessDNS
        /\ UNCHANGED <<wsOurs, err>>
     \/ /\ header.isUDP /\ header.port # DnsPort
        /\ Catch(Error("unsupported", "", 0))
        /\ UNCHANGED <<tcpVars, socks>>
     \/ /\ ~header.isUDP
        /\ ProcessTCP(socks)
        /\ UNCHANGED <<wsOurs, err>>
  /\ UNCHANGED <<config, hdrMsg, wsPeer, sent, lsnVars, dohVars, nIn>>

\* --------------------------------------------------------------- getHeader
\* websocket.ts 136-138: once getHeader's promise is settled, the .then callbacks
\* run as microtasks, before any further event is dispatched
MicrotaskPending == pc = "processHeader"

\* websocket.ts 44-52: handleMsg settles the promise with the first message and
\* removes getHeader's listeners; every registered forwarding listener sees the
\* same event (tcp.ts 36-38, dns.ts 13-16, dns.ts 86-96)
Forwarded(k) ==
  [s \in DOMAIN socks |->
     IF s \in msgL \/ s = dnsL THEN WriterWrite(socks[s], k) ELSE socks[s]]

PeerMessage ==
  /\ ~MicrotaskPending
  /\ wsPeer = "open"
  /\ nIn < MaxMsgs
  /\ nIn' = nIn + 1
  /\ hdrL' = FALSE
  /\ IF hdrL /\ pc = "getHeader"
       THEN pc' = "processHeader" /\ hdrMsg' = nIn + 1
       ELSE UNCHANGED <<pc, hdrMsg>>
  /\ socks' = Forwarded(nIn + 1)
  /\ IF dohL
       THEN dohQ' = Append(dohQ, nIn + 1) /\ dohPend' = dohPend \cup {nIn + 1}
       ELSE UNCHANGED dohVars
  /\ UNCHANGED <<config, tcpVars, wsVars, msgL, clsL, dnsL, dohL, err>>

\* websocket.ts 45-46: a text message while the header is awaited: reject('invalid data')
PeerText ==
  /\ wsPeer = "open"
  /\ nIn < MaxMsgs
  /\ hdrL /\ pc = "getHeader"
  /\ nIn' = nIn + 1
  /\ hdrMsg' = nIn + 1
  /\ hdrL' = FALSE
  /\ Catch(Error("invalid data", "", 0))
  /\ UNCHANGED <<config, tcpVars, socks, wsPeer, sent, msgL, clsL, dnsL, dohL,
                 dohVars>>

\* socket.close() of tcp.ts 39-44 and dns.ts 19-24 on every socket whose
\* close/error listeners are registered
ClosedByListeners ==
  [s \in DOMAIN socks |-> IF s \in clsL THEN Ended(socks[s], "local") ELSE socks[s]]

\* the peer closes the duplex connection: the 'close' event
PeerClose ==
  /\ ~MicrotaskPending
  /\ wsPeer = "open"
  /\ wsPeer' = "closed"
  /\ socks' = ClosedByListeners
  /\ UNCHANGED <<pc, config, hdrMsg, tcpVars, wsOurs, sent, lsnVars, dohVars,
                 nIn, err>>

\* the duplex connection errors: the 'error' event (websocket.ts 54-59 while the
\* header listeners are registered)
PeerError ==
  /\ ~MicrotaskPending
  /\ wsPeer = "open"
  /\ wsPeer' = "closed"
  /\ socks' = ClosedByListeners
  /\ hdrL' = FALSE
  /\ IF hdrL /\ pc = "getHeader"
       THEN Catch(Error("WebSocket error", "", 0))
       ELSE UNCHANGED <<pc, wsOurs, err>>
  /\ UNCHANGED <<config, hdrMsg, tcpVars, sent, msgL, clsL, dnsL, dohL, dohVars,
                 nIn>>

\* websocket.ts 64-68: the 10 s timer fires: reject('timeout') (a no-op once the
\* promise is settled) and the listeners are removed
Timeout ==
  /\ ~MicrotaskPending
  /\ hdrL
  /\ hdrL' = FALSE
  /\ IF pc = "getHeader"
       THEN Catch(Error("timeout", "", 0))
       ELSE UNCHANGED <<pc, wsOurs, err>>
  /\ UNCHANGED <<config, hdrMsg, tcpVars, socks, wsPeer, sent, msgL, clsL, dnsL,
                 dohL, dohVars, nIn>>

\* --------------------------------------------------------------------- tcp
\* a loop that would stop one entry early
HasNext_SkipsLast(i) == i + 1 < Len(proxyIPs)

\* tcp.ts 12: for (const proxyIP of proxyIPs): is there a next entry, and which
HasNext(i) == i < Len(proxyIPs)
NextIndex(i) == i + 1

\* a dial whose failure would end the session instead of reaching retry
DialFailed_Fatal(ss, e) ==
  /\ dialErr' = e
  /\ msgL' = msgL \ {cur}
  /\ clsL' = clsL \ {cur}
  /\ socket' = 0
  /\ idx' = idx
  /\ socks' = ss
  /\ Catch(UnreachableError)

\* tcp.ts 59-70 (dial's catch removes the listeners it registered and rethrows),
\* 109-110 and 12-20 (the next entry is dialed), 112-116 (none is left: throw)
DialFailed(ss, e) ==
  /\ dialErr' = e
  /\ msgL' = msgL \ {cur}
  /\ clsL' = clsL \ {cur}
  /\ socket' = 0
  /\ IF HasNext(idx)
       THEN /\ idx' = NextIndex(idx)
            /\ socks' = DialStart(ss, proxyIPs[NextIndex(idx)])
            /\ pc' = "dialWrite"
            /\ UNCHANGED <<wsOurs, err>>
       ELSE /\ idx' = idx
            /\ socks' = ss
            /\ Catch(UnreachableError)

\* tcp.ts 35-50: the write of rawData resolved; the listeners are registered and
\* the first read is awaited
DialWriteOk ==
  /\ pc = "dialWrite"
  /\ socks' = [socks EXCEPT ![cur] = Opened(@)]
  /\ msgL' = msgL \cup {cur}
  /\ clsL' = clsL \cup {cur}
  /\ pc' = "dialRead"
  /\ UNCHANGED <<config, hdrMsg, tcpVars, wsVars, hdrL, dnsL, dohL, dohVars, nIn,
                 err>>

\* tcp.ts 35: the connection could not be established: the write rejects
DialWriteFail ==
  /\ pc = "dialWrite"
  /\ DialFailed([socks EXCEPT ![cur] = Ended(@, "remote")], "rejected")
  /\ UNCHANGED <<config, hdrMsg, address, wsPeer, sent, hdrL, dnsL, dohL, dohVars, nIn>>

\* tcp.ts 50-58: the first chunk arrived; it is sent behind the preamble
DialReadValue ==
  /\ pc = "dialRead"
  /\ socks[cur].st = "open"
  /\ \E o \in SendOutcomes :
       /\ sent' = Delivered(o, WithPreamble(Chunk(cur, 1)))
       /\ IF o = "throw"
            THEN DialFailed([socks EXCEPT ![cur] = ReadOne(@)], "send")
            ELSE /\ socks' = [socks EXCEPT ![cur] = ReadOne(@)]
                 /\ socket' = cur
                 /\ pc' = "relay"
                 /\ UNCHANGED <<idx, wsOurs, err, msgL, clsL, dialErr>>
  /\ UNCHANGED <<config, hdrMsg, address, wsPeer, hdrL, dnsL, dohL, dohVars, nIn>>

\* tcp.ts 50-53: end of stream before any byte: throw Error('connection was done')
DialReadDone ==
  /\ pc = "dialRead"
  /\ socks[cur].st = "open"
  /\ DialFailed([socks EXCEPT ![cur] = Ended(@, "remote")], "connection was done")
  /\ UNCHANGED <<config, hdrMsg, address, wsPeer, sent, hdrL, dnsL, dohL, dohVars, nIn>>

\* tcp.ts 50: the read rejects
DialReadError ==
  /\ pc = "dialRead"
  /\ socks[cur].st = "open"
  /\ DialFailed([socks EXCEPT ![cur] = Ended(@, "remote")], "rejected")
  /\ UNCHANGED <<config, hdrMsg, address, wsPeer, sent, hdrL, dnsL, dohL, dohVars, nIn>>

\* tcp.ts 50: the read ends because closeFn/errorFn closed the socket
DialReadClosed ==
  /\ pc = "dialRead"
  /\ socks[cur].st = "closed"
  /\ DialFailed(socks, "connection was done")
  /\ UNCHANGED <<config, hdrMsg, address, wsPeer, sent, hdrL, dnsL, dohL, dohVars, nIn>>

\* tcp.ts 117-121: pipeTo's sink write(chunk) { ws.send(chunk) }; a send that
\* throws errors the pipe: the readable is cancelled and processTCP rejects
RelayChunk ==
  /\ pc = "relay"
  /\ socks[cur].st = "open"
  /\ socks[cur].rd < MaxChunks
  /\ \E o \in SendOutcomes :
       /\ sent' = Delivered(o, Verbatim(Chunk(cur, socks[cur].rd + 1)))
       /\ IF o = "throw"
            THEN /\ \E why \in {"none", "local"} :
                      socks' = [socks EXCEPT ![cur] =
                                  IF why = "none" THEN ReadOne(@)
                                  ELSE Ended(ReadOne(@), why)]
                 /\ Catch(Error("relay", "", 0))
            ELSE /\ socks' = [socks EXCEPT ![cur] = ReadOne(@)]
                 /\ UNCHANGED <<pc, wsOurs, err>>
  /\ UNCHANGED <<config, hdrMsg, tcpVars, wsPeer, lsnVars, dohVars, nIn>>

\* tcp.ts 125-127: the readable ended: close() { safeCloseWebSocket(ws) }
RelayClose ==
  /\ pc = "relay"
  /\ socks[cur].st = "open"
  /\ socks' = [socks EXCEPT ![cur] = Ended(@, "remote")]
  /\ wsOurs' = safeCloseWebSocket(wsOurs)
  /\ pc' = "done"
  /\ UNCHANGED <<config, hdrMsg, tcpVars, wsPeer, sent, lsnVars, dohVars, nIn, err>>

\* tcp.ts 125-127: the readable ended because closeFn/errorFn closed the socket
RelayClosed ==
  /\ pc = "relay"
  /\ socks[cur].st = "closed"
  /\ wsOurs' = safeCloseWebSocket(wsOurs)
  /\ pc' = "done"
  /\ UNCHANGED <<config, hdrMsg, tcpVars, socks, wsPeer, sent, lsnVars, dohVars,
                 nIn, err>>

\* tcp.ts 122-124: the readable errored: abort() { safeCloseWebSocket(ws) }, and
\* pipeTo rejects into the driver's catch
RelayAbort ==
  /\ pc = "relay"
  /\ socks[cur].st = "open"
  /\ socks' = [socks EXCEPT ![cur] = Ended(@, "remote")]
  /\ Catch(Error("relay", "", 0))
  /\ UNCHANGED <<config, hdrMsg, tcpVars, wsPeer, sent, lsnVars, dohVars, nIn>>

\* --------------------------------------------------------------------- dns
\* dns.ts 50-52 and 75-76: the fast path threw: the catch logs, and the initial
\* DoH query for header.rawData is issued
StartDoh ==
  /\ dohQ' = Append(dohQ, RawData)
  /\ pc' = "dohInit"

\* websocket.ts 141-147: processDNS returned, and the driver goes on to
\* await processTCP(server, header, proxyEntries)
AfterDNS(ss) == ProcessTCP(ss)

\* dns.ts 11-27: the write of rawData resolved; handleMessage and the close/error
\* listeners are registered and the first read is awaited
DnsWriteOk ==
  /\ pc = "dnsWrite"
  /\ socks' = [socks EXCEPT ![cur] = Opened(@)]
  /\ dnsL' = cur
  /\ clsL' = clsL \cup {cur}
  /\ pc' = "dnsRead"
  /\ UNCHANGED <<config, hdrMsg, tcpVars, wsVars, hdrL, msgL, dohL, dohVars, nIn,
                 err>>

\* dns.ts 11: the write rejects
DnsWriteFail ==
  /\ pc = "dnsWrite"
  /\ socks' = [socks EXCEPT ![cur] = Ended(@, "remote")]
  /\ StartDoh
  /\ UNCHANGED <<config, hdrMsg, tcpVars, wsVars, lsnVars, dohPend, nIn, err>>

\* dns.ts 27-36: the resolver's first reply is sent behind the preamble
DnsReadValue ==
  /\ pc = "dnsRead"
  /\ socks[cur].st = "open"
  /\ socks' = [socks EXCEPT ![cur] = ReadOne(@)]
  /\ \E o \in SendOutcomes :
       /\ sent' = Delivered(o, WithPreamble(Chunk(cur, 1)))
       /\ IF o = "throw"
            THEN StartDoh
            ELSE pc' = "dnsRelay" /\ UNCHANGED dohQ
  /\ UNCHANGED <<config, hdrMsg, tcpVars, wsPeer, wsOurs, lsnVars, dohPend, nIn,
                 err>>

\* dns.ts 27-30: end of stream before any reply: throw Error('connection was done')
DnsReadDone ==
  /\ pc = "dnsRead"
  /\ socks[cur].st = "open"
  /\ socks' = [socks EXCEPT ![cur] = Ended(@, "remote")]
  /\ StartDoh
  /\ UNCHANGED <<config, hdrMsg, tcpVars, wsVars, lsnVars, dohPend, nIn, err>>

\* dns.ts 27: the read rejects
DnsReadError ==
  /\ pc = "dnsRead"
  /\ socks[cur].st = "open"
  /\ socks' = [socks EXCEPT ![cur] = Ended(@, "remote")]
  /\ StartDoh
  /\ UNCHANGED <<config, hdrMsg, tcpVars, wsVars, lsnVars, dohPend, nIn, err>>

\* dns.ts 27: the read ends because a close/error listener closed the socket
DnsReadClosed ==
  /\ pc = "dnsRead"
  /\ socks[cur].st = "closed"
  /\ StartDoh
  /\ UNCHANGED <<config, hdrMsg, tcpVars, socks, wsVars, lsnVars, dohPend, nIn,
                 err>>

\* dns.ts 36-40: pipeTo's sink write(chunk) { ws.send(chunk) }; a send that throws
\* rejects pipeTo into the catch of line 50
DnsRelayChunk ==
  /\ pc = "dnsRelay"
  /\ socks[cur].st = "open"
  /\ socks[cur].rd < MaxChunks
  /\ \E o \in SendOutcomes :
       /\ sent' = Delivered(o, Verbatim(Chunk(cur, socks[cur].rd + 1)))
       /\ IF o = "throw"
            THEN /\ \E why \in {"none", "local"} :
                      socks' = [socks EXCEPT ![cur] =
                                  IF why = "none" THEN ReadOne(@)
                                  ELSE Ended(ReadOne(@), why)]
                 /\ StartDoh
            ELSE /\ socks' = [socks EXCEPT ![cur] = ReadOne(@)]
                 /\ UNCHANGED <<pc, dohQ>>
  /\ UNCHANGED <<config, hdrMsg, tcpVars, wsPeer, wsOurs, lsnVars, dohPend, nIn,
                 err>>

\* dns.ts 44-49: the readable ended: close() { safeCloseWebSocket(ws) }, return
DnsRelayClose ==
  /\ pc = "dnsRelay"
  /\ socks[cur].st = "open"
  /\ wsOurs' = safeCloseWebSocket(wsOurs)
  /\ AfterDNS([socks EXCEPT ![cur] = Ended(@, "remote")])
  /\ UNCHANGED <<config, hdrMsg, wsPeer, sent, lsnVars, dohVars, nIn, err>>

\* dns.ts 44-49: the readable ended because a close/error listener closed the socket
DnsRelayClosed ==
  /\ pc = "dnsRelay"
  /\ socks[cur].st = "closed"
  /\ wsOurs' = safeCloseWebSocket(wsOurs)
  /\ AfterDNS(socks)
  /\ UNCHANGED <<config, hdrMsg, wsPeer, sent, lsnVars, dohVars, nIn, err>>

\* dns.ts 41-43 and 50-52: the readable errored: abort() { safeCloseWebSocket(ws) },
\* and pipeTo rejects into the catch of line 50
DnsRelayAbort ==
  /\ pc = "dnsRelay"
  /\ socks[cur].st = "open"
  /\ socks' = [socks EXCEPT ![cur] = Ended(@, "remote")]
  /\ wsOurs' = safeCloseWebSocket(wsOurs)
  /\ StartDoh
  /\ UNCHANGED <<config, hdrMsg, tcpVars, wsPeer, sent, lsnVars, dohPend, nIn, err>>

\* an initial reply that would be sent like the later ones
InitialReply_NoPreamble(q) == Verbatim(DohBody(q))

\* dns.ts 77-79: new Blob([Protocol.RESPONSE_DATA(header.version), initial])
InitialReply(q) == WithPreamble(DohBody(q))

\* dns.ts 76-79 and 86-99: the initial DoH reply is sent behind the preamble and the
\* message listener is registered; a send that throws is caught by line 80
DohInitOk ==
  /\ pc = "dohInit"
  /\ \E o \in SendOutcomes :
       /\ sent' = Delivered(o, InitialReply(RawData))
       /\ IF o = "throw"
            THEN wsOurs' = safeCloseWebSocket(wsOurs) /\ UNCHANGED dohL
            ELSE dohL' = TRUE /\ UNCHANGED wsOurs
  /\ AfterDNS(socks)
  /\ UNCHANGED <<config, hdrMsg, wsPeer, hdrL, msgL, clsL, dnsL, dohVars, nIn, err>>

\* dns.ts 64-66 and 80-84: the initial DoH query failed: safeCloseWebSocket, return
DohInitFail ==
  /\ pc = "dohInit"
  /\ wsOurs' = safeCloseWebSocket(wsOurs)
  /\ AfterDNS(socks)
  /\ UNCHANGED <<config, hdrMsg, wsPeer, sent, lsnVars, dohVars, nIn, err>>

\* dns.ts 89-91: the reply to a later query is sent without the preamble; a send
\* that throws is caught by line 92
DohReplyOk(k) ==
  /\ k \in dohPend
  /\ dohPend' = dohPend \ {k}
  /\ \E o \in SendOutcomes :
       /\ sent' = Delivered(o, Verbatim(DohBody(k)))
       /\ wsOurs' = IF o = "throw" THEN safeCloseWebSocket(wsOurs) ELSE wsOurs
  /\ UNCHANGED <<pc, config, hdrMsg, tcpVars, socks, wsPeer, lsnVars, dohQ, nIn,
                 err>>

\* dns.ts 64-66 and 92-95: a later query failed: safeCloseWebSocket
DohReplyFail(k) ==
  /\ k \in dohPend
  /\ dohPend' = dohPend \ {k}
  /\ wsOurs' = safeCloseWebSocket(wsOurs)
  /\ UNCHANGED <<pc, config, hdrMsg, tcpVars, socks, wsPeer, sent, lsnVars, dohQ,
                 nIn, err>>

\* ------------------------------------------------------------ specification
\* what the far ends and the peer may or may not do
Environment ==
  \/ PeerMessage
  \/ PeerText
  \/ PeerClose
  \/ PeerError
  \/ DialReadValue
  \/ DialReadDone
  \/ DialReadError
  \/ RelayChunk
  \/ RelayClose
  \/ RelayAbort
  \/ DnsReadValue
  \/ DnsReadDone
  \/ DnsReadError
  \/ DnsRelayChunk
  \/ DnsRelayClose
  \/ DnsRelayAbort

\* what the runtime is bound to run: the timer, the settling of a connection
\* attempt or of a fetch, and the continuation after a local socket.close()
Scheduled ==
  \/ Timeout
  \/ ProcessHeader
  \/ Resolved
  \/ DialWriteOk
  \/ DialWriteFail
  \/ DialReadClosed
  \/ RelayClosed
  \/ DnsWriteOk
  \/ DnsWriteFail
  \/ DnsReadClosed
  \/ DnsRelayClosed
  \/ DohInitOk
  \/ DohInitFail
  \/ \E k \in 1..MaxMsgs : DohReplyOk(k)
  \/ \E k \in 1..MaxMsgs : DohReplyFail(k)

Next == Environment \/ Scheduled

Spec == Init /\ [][Next]_vars

FairSpec == Spec /\ WF_vars(Scheduled)

\* ------------------------------------------------- the parser on its own
\* websocket.ts 79-117 for every PROXY_IP of up to MaxInput characters over the
\* characters that matter to the parser: the value is configured, then parsed
Alphabet == {"h", "4", "-", ":", "@", "[", "]", ",", " "}
Inputs == UNION {[1..n -> Alphabet] : n \in 0..MaxInput}

ParseInit ==
  /\ PROXY_IP \in Inputs
  /\ proxyIPs = <<>>
  /\ pc = "parse"
  /\ earlyData = FALSE
  /\ header = Header(FALSE, DefaultProxyPort, Literal)
  /\ hdrMsg = 0
  /\ address = header.address
  /\ idx = 0
  /\ socket = 0
  /\ dialErr = "none"
  /\ socks = <<>>
  /\ wsPeer = "open"
  /\ wsOurs = FALSE
  /\ hdrL = FALSE
  /\ msgL = {}
  /\ clsL = {}
  /\ dnsL = 0
  /\ dohL = FALSE
  /\ dohQ = <<>>
  /\ dohPend = {}
  /\ sent = <<>>
  /\ nIn = 0
  /\ err = NoErr

\* websocket.ts 82-136: the list is parsed, the pair accepted and getHeader called
Parse ==
  /\ pc = "parse"
  /\ proxyIPs' = ParseProxyIP(PROXY_IP)
  /\ pc' = "getHeader"
  /\ hdrL' = TRUE
  /\ UNCHANGED <<earlyData, header, PROXY_IP, hdrMsg, tcpVars, socks, wsVars, msgL,
                 clsL, dnsL, dohL, dohVars, nIn, err>>

ParseSpec == ParseInit /\ [][Parse]_vars

\* ------------------------------------------------------------------ claims
Live(s) == socks[s].st # "closed"
IsPrefix(a, b) == Len(a) <= Len(b) /\ \A i \in 1..Len(a) : a[i] = b[i]

\* the sockets dial opened, in order, and the targets they were opened to
Dials == {s \in DOMAIN socks : socks[s].via = "dial"}
AttemptsFrom(s) ==
  LET n == Cardinality({d \in Dials : d >= s})
  IN [i \in 1..n |-> socks[s + i - 1].tgt]
Attempts == IF Dials = {} THEN <<>> ELSE AttemptsFrom(CHOOSE s \in Dials : \A d \in Dials : s <= d)
Candidates == <<PrimaryTarget>> \o proxyIPs

\* C1: at no time are two outbound connections of the session pending or open
\* (stated as the claim states it; the code violates it)
C1_AtMostOneOutbound == Cardinality({s \in DOMAIN socks : Live(s)}) <= 1

\* C2: in a TCP session the established outbound connection has been written the
\* initial payload followed by every inbound message received after the header,
\* in arrival order (stated as the claim states it; the code violates it)
InboundAfterHeader == [i \in 1..(nIn - hdrMsg) |-> hdrMsg + i]
C2_InboundDeliveredInOrder ==
  (IsTcp /\ socket # 0 /\ socks[socket].st = "open")
    => socks[socket].wr = <<RawData>> \o InboundAfterHeader

C4_PreambleOnlyFirst == \A i \in 1..Len(sent) : sent[i].pre => i = 1

\* C5: a session whose header is UDP on port 53 never enters the TCP bridge and
\* never dials (stated as the claim states it; the code violates it)
TcpBridgePcs == {"resolve", "dialWrite", "dialRead", "relay"}
C5_OnlyDnsBridge == IsDns => (pc \notin TcpBridgePcs /\ Dials = {})

\* C6: when the DNS fast path fails before its first reply is sent, nothing is sent
\* to the peer until the fallback produces its first reply, and that reply is the
\* preamble followed by the reply bytes
FastPathSent == sent # <<>> /\ sent[1].body = Chunk(1, 1)
FastPathFailedImmediately == IsDns /\ dohQ # <<>> /\ ~FastPathSent
C6_NothingBeforeFallbackReply ==
  FastPathFailedImmediately =>
    /\ pc = "dohInit" => sent = <<>>
    /\ sent # <<>> => sent[1] = WithPreamble(DohBody(RawData))
C6_Witness ==
  /\ IsDns
  /\ Len(socks) >= 1
  /\ socks[1].end = "remote"
  /\ Len(sent) >= 1
  /\ sent[1] = WithPreamble(DohBody(RawData))

C8_UnreachableClosesSilently ==
  (IsTcp /\ err.kind = "unreachable") =>
    /\ pc = "done"
    /\ wsOurs
    /\ sent = <<>>
    /\ err.address = header.address
    /\ err.port = header.port
C8_Witness ==
  /\ IsTcp
  /\ err.kind = "unreachable"
  /\ Len(proxyIPs) >= 1
  /\ address # header.address

\* C9: while a session is established, what the peer was sent is one message, the
\* preamble with the first chunk, then every later chunk verbatim in the order
\* read (stated as the claim states it; the code violates it)
RelayedFrom(s) ==
  <<WithPreamble(Chunk(s, 1))>> \o
    [i \in 1..(socks[s].rd - 1) |-> Verbatim(Chunk(s, i + 1))]
Established(s) ==
  /\ s \in DOMAIN socks
  /\ socks[s].st = "open"
  /\ \/ pc = "relay" /\ s = socket
     \/ pc = "dnsRelay" /\ s = cur
C9_FirstChunkThenVerbatim ==
  \A s \in DOMAIN socks :
    Established(s) =>
      IF WsOpen THEN sent = RelayedFrom(s) ELSE IsPrefix(sent, RelayedFrom(s))

\* C10: in a TCP session, once the peer has closed or errored every outbound
\* connection is eventually closed, and once the established outbound connection
\* has signalled end of stream or an error the duplex connection is eventually
\* closed (stated as the claim states it; the code violates it)
C10_Teardown ==
  /\ (IsTcp /\ wsPeer = "closed") ~> (\A s \in DOMAIN socks : ~Live(s))
  /\ (IsTcp /\ socket # 0 /\ socks[socket].end = "remote")
       ~> (wsOurs \/ wsPeer = "closed")

\* C11: after an outbound connection has ended no write to it is attempted for a
\* later inbound message, and after the duplex connection has closed or errored no
\* send to it is attempted for a later chunk or fallback reply (stated as the claim
\* states it; the code violates it)
WriteAfterEnd ==
  /\ PeerMessage
  /\ \E s \in DOMAIN socks : (s \in msgL \/ s = dnsL) /\ socks[s].st = "closed"
SendAttempt ==
  \/ DialReadValue
  \/ RelayChunk
  \/ DnsReadValue
  \/ DnsRelayChunk
  \/ DohInitOk
  \/ \E k \in 1..MaxMsgs : DohReplyOk(k)
SendAfterClose == wsPeer = "closed" /\ SendAttempt
C11_NoUseAfterEnd == [][~WriteAfterEnd /\ ~SendAfterClose]_vars

\* C12: a close request on a session whose duplex connection was already closed
\* (the peer's close or error arriving after ours, the relay's close or abort, a
\* failed fallback query) leaves it closed, sends nothing, and starts no dial and
\* no query (stated as the claim states it; the code violates it)
CloseRequested ==
  \/ PeerClose
  \/ PeerError
  \/ RelayClose
  \/ RelayClosed
  \/ RelayAbort
  \/ DohInitFail
  \/ \E k \in 1..MaxMsgs : DohReplyFail(k)
CloseHasNoEffect ==
  /\ wsOurs'
  /\ sent' = sent
  /\ Len(socks') = Len(socks)
  /\ dohQ' = dohQ
C12_CloseIdempotent == [][(wsOurs /\ CloseRequested) => CloseHasNoEffect]_vars

\* C13: in a TCP session to a domain name the first dial is to the header's own
\* hostname and port whatever resolveDomain returned, and every later dial is to a
\* list entry in list order: the targets dialed are a function of the header and of
\* the list alone, so two runs that differ in the resolution result only dial the
\* same targets in the same order
FirstDial == CHOOSE s \in Dials : \A d \in Dials : s <= d
C13_DialsOriginalHostname ==
  (IsTcp /\ LooksLikeDomain(header.address) /\ Dials # {}) =>
    /\ socks[FirstDial].tgt = [host |-> header.address, port |-> header.port]
    /\ \A i \in 2..Len(Attempts) : i - 1 <= Len(proxyIPs) /\ Attempts[i] = proxyIPs[i - 1]
C13_Witness ==
  /\ IsTcp
  /\ address = ResolvedIP
  /\ Dials # {}
  /\ socks[FirstDial].tgt.host = Domain
  /\ Len(Attempts) >= 2

\* C14: a header with isUDP and a port other than 53 never leads to a dial or a DNS
\* query and nothing is sent to the peer; the step that dispatches on it ends the
\* session at once, with the duplex connection closed, as unsupported (or with
\* processHeader's own error when it throws)
IsUnsupported == header.isUDP /\ header.port # DnsPort
C14_UnsupportedUdpFailsAtOnce ==
  /\ [](IsUnsupported =>
          /\ socks = <<>>
          /\ dohQ = <<>>
          /\ sent = <<>>
          /\ pc \in {"getHeader", "processHeader", "done"}
          /\ pc = "done" => wsOurs)
  /\ [][(IsUnsupported /\ ProcessHeader) =>
          (pc' = "done" /\ wsOurs' /\ err'.kind \in {"unsupported", "header"})]_vars
C14_Witness ==
  /\ IsUnsupported
  /\ hdrMsg >= 1
  /\ err.kind = "unsupported"
  /\ wsOurs
  /\ socks = <<>>

\* C15: while a DNS session is in Fallback (the fast path failed and the duplex
\* connection is not closed), every inbound message is POSTed as a query exactly
\* once: the step that dispatches it appends it, once, to the queries issued
\* (stated as the claim states it; the code violates it)
InFallback == IsDns /\ dohQ # <<>> /\ WsOpen
C15_EveryMessageQueriedOnce ==
  [][(InFallback /\ PeerMessage) => dohQ' = Append(dohQ, nIn + 1)]_vars

\* C16: a failed fallback query, the initial one or a later one, closes the duplex
\* connection and ends the session: the query is not issued again, nothing is
\* sent to the peer and no query or dial follows from the failure (stated as the
\* claim states it; the code violates it)
QueryFailed == DohInitFail \/ \E k \in 1..MaxMsgs : DohReplyFail(k)
C16_QueryFailureFatal ==
  [][QueryFailed =>
       /\ wsOurs'
       /\ sent' = sent
       /\ dohQ' = dohQ
       /\ Len(socks') = Len(socks)
       /\ pc' \notin TcpBridgePcs \cup {"dnsWrite", "dohInit"}]_vars

\* C17: when the timer fires while the header is still awaited the session ends
\* there: the duplex connection is closed, nothing was sent, no socket was opened
\* and no query issued; when it fires after the header arrived it removes
\* getHeader's listeners and changes nothing else
C17_HeaderTimeout ==
  /\ [](err.kind = "timeout" =>
          /\ pc = "done"
          /\ wsOurs
          /\ sent = <<>>
          /\ socks = <<>>
          /\ dohQ = <<>>)
  /\ [][Timeout =>
          IF pc = "getHeader"
            THEN /\ pc' = "done"
                 /\ wsOurs'
                 /\ err'.kind = "timeout"
                 /\ sent' = <<>>
                 /\ socks' = <<>>
            ELSE UNCHANGED <<pc, config, hdrMsg, tcpVars, socks, wsVars, msgL, clsL,
                             dnsL, dohL, dohVars, nIn, err>>]_vars
C17_Witness ==
  /\ err.kind = "timeout"
  /\ ~earlyData
  /\ nIn = 0
  /\ wsOurs
  /\ ~hdrL

\* C19: a DNS session issues its initial fallback query only from the fast path,
\* with nothing sent to the peer yet; once the resolver's first reply was sent, no
\* step leads to the fallback or to a new initial query (stated as the claim
\* states it; the code violates it)
EntersFallback == pc # "dohInit" /\ pc' = "dohInit"
InitialQueryIssued == Len(dohQ') > Len(dohQ) /\ dohQ'[Len(dohQ')] = RawData
C19_FallbackOnlyFromFastPath ==
  [][(IsDns /\ (EntersFallback \/ InitialQueryIssued)) =>
       (pc \in {"dnsWrite", "dnsRead"} /\ sent = <<>> /\ dohQ = <<>>)]_vars

\* C20: at most one listener forwarding inbound messages is registered on the
\* duplex connection at any time, and none of the fast path once the DNS session
\* has switched to the fallback (stated as the claim states it; the code
\* violates it)
ForwardingListeners ==
  Cardinality(msgL) + (IF dnsL # 0 THEN 1 ELSE 0) + (IF dohL THEN 1 ELSE 0)
C20_OneForwardingListener ==
  /\ ForwardingListeners <= 1
  /\ dohQ # <<>> => dnsL = 0

\* C18: the parsed list holds, in input order, one entry per well-formed item with
\* exactly the written host: host:port, host:port@servername and [v6]:port give
\* the written host and port (and servername), a bare host and a bare [v6] give the
\* written host with port 443, and the items of a list are parsed one by one
\* (stated as the claim states it; the code violates it)
HostChars == {"h", "4", "-"}
IsHost(str) == str # <<>> /\ \A i \in 1..Len(str) : str[i] \in HostChars
IsV6(str) == str # <<>> /\ \A i \in 1..Len(str) : str[i] \in HostChars \cup {":"}
IsPort(str) == IsDigits(str) /\ Decimal(str) > 0
Part(str, from, to) == SubSeq(str, from, to)
Parsed == pc # "parse"
HostPortForm ==
  \A i \in 1..Len(PROXY_IP) :
    LET h == Part(PROXY_IP, 1, i - 1)
        p == Part(PROXY_IP, i + 1, Len(PROXY_IP))
    IN (PROXY_IP[i] = ":" /\ IsHost(h) /\ IsPort(p))
         => proxyIPs = <<ProxyEntry(h, Decimal(p), Undefined)>>
HostPortServernameForm ==
  \A i, j \in 1..Len(PROXY_IP) :
    LET h == Part(PROXY_IP, 1, i - 1)
        p == Part(PROXY_IP, i + 1, j - 1)
        n == Part(PROXY_IP, j + 1, Len(PROXY_IP))
    IN (i < j /\ PROXY_IP[i] = ":" /\ PROXY_IP[j] = "@" /\ IsHost(h) /\ IsPort(p) /\ IsHost(n))
         => proxyIPs = <<ProxyEntry(h, Decimal(p), n)>>
BracketedPortForm ==
  \A j \in 2..(Len(PROXY_IP) - 1) :
    LET h == Part(PROXY_IP, 2, j - 1)
        p == Part(PROXY_IP, j + 2, Len(PROXY_IP))
    IN (PROXY_IP[1] = "[" /\ PROXY_IP[j] = "]" /\ PROXY_IP[j + 1] = ":" /\ IsV6(h) /\ IsPort(p))
         => proxyIPs = <<ProxyEntry(h, Decimal(p), Undefined)>>
BareBracketedForm ==
  LET h == Part(PROXY_IP, 2, Len(PROXY_IP) - 1)
  IN (Len(PROXY_IP) >= 2 /\ PROXY_IP[1] = "[" /\ PROXY_IP[Len(PROXY_IP)] = "]" /\ IsV6(h))
       => proxyIPs = <<ProxyEntry(h, DefaultProxyPort, Undefined)>>
BareHostForm ==
  IsHost(PROXY_IP) => proxyIPs = <<ProxyEntry(PROXY_IP, DefaultProxyPort, Undefined)>>
ItemByItem ==
  \A i \in 1..Len(PROXY_IP) :
    PROXY_IP[i] = ","
      => proxyIPs = ParseProxyIP(Part(PROXY_IP, 1, i - 1))
                      \o ParseProxyIP(Part(PROXY_IP, i + 1, Len(PROXY_IP)))
C18_ParsesEveryForm ==
  Parsed =>
    /\ HostPortForm
    /\ HostPortServernameForm
    /\ BracketedPortForm
    /\ BareBracketedForm
    /\ BareHostForm
    /\ ItemByItem
====
